---- MODULE Spec2Model ----
(***************************************************************************)
(* A model of src/db/commander.py: the identifier validator _check_ident,  *)
(* the Commander's connection handling and transaction scope               *)
(* (get_connection / get_cursor) under concurrent callers, and the         *)
(* statement builders (create_table, enter_record, bulk_insert, ...)       *)
(* against a PostgreSQL-like store.                                        *)
(***************************************************************************)
EXTENDS Integers, Sequences, FiniteSets, TLC

VARIABLES
    name,       \* _check_ident: the argument, a sequence of characters
    identOut,   \* _check_ident: "none" (not called), "ok" (returned name), "raised"
    conn,       \* Commander.conn: NoConn (None) or the id of a connection object
    nOpened,    \* how many connection objects psycopg2.connect has returned so far
    opened,     \* the connections that are open (returned by connect, not closed or dead)
    shut,       \* Commander.close() has been called
    iso,        \* iso[i]: the isolation level of connection i
    pending,    \* pending[i]: callers with rows of the operation in flight in i's open transaction
    durable,    \* callers with rows of the operation in flight committed to the store
    faults,     \* how many library calls have failed so far
    active,     \* the callers (threads) that use the Commander
    pc,         \* pc[c]: where caller c stands in get_cursor
    req,        \* req[c]: get_cursor's isolation_level argument
    left,       \* left[c]: statements the caller's with-body has still to run
    lconn,      \* lconn[c]: get_cursor's local `conn` (what get_connection yielded)
    old,        \* old[c]: get_cursor's local `old_isolation`
    stmtErr,    \* stmtErr[c]: a statement of the body raised
    commitOn,   \* commitOn[c]: the connection the scope called commit() on (NoConn: none)
    rollbackOn, \* rollbackOn[c]: the connection the scope called rollback() on (NoConn: none)
    outcome,    \* outcome[c]: "none" (scope open or never entered), "ok", "raised",
                \* "nocursor" (raised by conn.cursor(), before the try block)
    db,         \* the store: whether table stock_indicators exists, and its rows
    call,       \* the public operation just run and its arguments (op "none": none)
    ret,        \* what that operation returned or raised
    sent        \* the statements that operation sent to the store, in order

identVars == <<name, identOut>>
cmdVars == <<conn, nOpened, opened, shut, iso, pending, durable, faults, active>>
scopeVars == <<pc, req, left, lconn, old, stmtErr, commitOn, rollbackOn, outcome>>
seqVars == <<db, call, ret, sent>>
vars == <<identVars, cmdVars, scopeVars, seqVars>>

(***************************************************************************)
(* Characters.  A Python str is a sequence of one-character strings.       *)
(***************************************************************************)
LowerSeq == <<"a","b","c","d","e","f","g","h","i","j","k","l","m",
              "n","o","p","q","r","s","t","u","v","w","x","y","z">>
UpperSeq == <<"A","B","C","D","E","F","G","H","I","J","K","L","M",
              "N","O","P","Q","R","S","T","U","V","W","X","Y","Z">>
DigitSeq == <<"0","1","2","3","4","5","6","7","8","9">>

Range(f) == { f[i] : i \in DOMAIN f }

Lower == Range(LowerSeq)
Upper == Range(UpperSeq)
Digits == Range(DigitSeq)
Letters == Lower \cup Upper

\* the character class [a-zA-Z_] of _IDENT (line 10)
IdentStart == Letters \cup {"_"}
\* the character class [a-zA-Z0-9_] of _IDENT (line 10)
IdentPart == Letters \cup Digits \cup {"_"}

(***************************************************************************)
(* _IDENT = re.compile(r'^[a-zA-Z_][a-zA-Z0-9_]*$'), used with .match().   *)
(* Python's `$` (no MULTILINE flag) matches at the end of the string and   *)
(* also just before a newline that is the last character of the string.    *)
(***************************************************************************)
DollarAt(s, i) ==
    \/ i = Len(s) + 1
    \/ i = Len(s) /\ s[i] = "\n"

\* _IDENT.match(name): position 1 holds [a-zA-Z_], positions 2..i-1 hold
\* [a-zA-Z0-9_], and `$` matches at position i
IdentMatch(s) ==
    /\ Len(s) >= 1
    /\ s[1] \in IdentStart
    /\ \E i \in 2..(Len(s) + 1) :
          /\ \A j \in 2..(i - 1) : s[j] \in IdentPart
          /\ DollarAt(s, i)

\* _check_ident(name): raises ValueError when `not name or not _IDENT.match(name)`,
\* returns name otherwise
CheckIdent(s) == IF s = <<>> \/ ~IdentMatch(s) THEN "raised" ELSE "ok"

IdentOk(s) == CheckIdent(s) = "ok"

(***************************************************************************)
(* The Commander and its callers.                                          *)
(***************************************************************************)
NCallers == 2
MaxConns == 2
MaxFaults == 2
MaxStmts == 2

Callers == 1..NCallers
ConnIds == 1..MaxConns

\* self.conn is None (_init_con returns None when psycopg2.connect fails)
NoConn == 0

\* the isolation levels psycopg2 knows; get_cursor's default is READ_COMMITTED
Levels == {"READ_COMMITTED", "REPEATABLE_READ", "SERIALIZABLE"}
\* the level of a connection psycopg2.connect has just returned
DefaultLevel == "READ_COMMITTED"

\* a caller between `with self.get_connection() as conn` and the end of the
\* finally block of get_cursor: it holds a connection in its local `conn`
InScope(c) == pc[c] \in {"set", "body", "commit", "rollback", "close", "restore"}

\* no caller has entered a scope: the state every specification starts from
ScopesIdle ==
    /\ pc = [c \in Callers |-> "idle"]
    /\ req = [c \in Callers |-> DefaultLevel]
    /\ left = [c \in Callers |-> 0]
    /\ lconn = [c \in Callers |-> NoConn]
    /\ old = [c \in Callers |-> DefaultLevel]
    /\ stmtErr = [c \in Callers |-> FALSE]
    /\ commitOn = [c \in Callers |-> NoConn]
    /\ rollbackOn = [c \in Callers |-> NoConn]
    /\ outcome = [c \in Callers |-> "none"]

\* Commander.__init__: self.conn = self._init_con(), a connection or None
Constructed(ok) ==
    /\ conn = (IF ok THEN 1 ELSE NoConn)
    /\ nOpened = (IF ok THEN 1 ELSE 0)
    /\ opened = (IF ok THEN {1} ELSE {})
    /\ shut = FALSE
    /\ iso = [i \in ConnIds |-> DefaultLevel]
    /\ pending = [i \in ConnIds |-> {}]
    /\ durable = {}
    /\ faults = 0

\* The store holds table stock_indicators (lines 527-532), keyed on symbol
\* (NOT NULL UNIQUE), with the nullable column indicator_type.  rows[k] is the
\* indicator_type of the row with symbol k, "NULL", or "absent" (no such row)
Keys == {"AAPL", "MSFT"}
Vals == {"RSI", "SMA"}
\* a value the store rejects for indicator_type VARCHAR(25)
TooLong == "a string of more than 25 characters"

RowVals == Vals \cup {"NULL", "absent"}

NoRows == [k \in Keys |-> "absent"]

\* no public operation has been called
NoCall == [op |-> "none", table |-> <<>>, cols |-> <<>>, ifne |-> FALSE,
           values |-> <<>>, columns |-> <<>>, rows |-> <<>>, records |-> <<>>,
           cc |-> <<>>, upsert |-> FALSE]

\* the store before any table is created
NoTable == [exists |-> FALSE, cols |-> {}, rows |-> NoRows]

SeqIdle ==
    /\ db = NoTable
    /\ call = NoCall
    /\ ret = [tag |-> "none", n |-> 0, val |-> FALSE]
    /\ sent = <<>>

CmdIdle ==
    /\ Constructed(TRUE)
    /\ active = {}
    /\ ScopesIdle
    /\ SeqIdle

\* a library call fails: the model allows MaxFaults failures in a run
CanFail == faults < MaxFaults

\* the scope ends: the generator returns or the exception leaves get_cursor
\* (the arguments and the call record of the scope go with its frame)
Leave(c, how) ==
    /\ pc' = [pc EXCEPT ![c] = "idle"]
    /\ outcome' = [outcome EXCEPT ![c] = how]
    /\ req' = [req EXCEPT ![c] = DefaultLevel]
    /\ left' = [left EXCEPT ![c] = 0]
    /\ commitOn' = [commitOn EXCEPT ![c] = NoConn]
    /\ rollbackOn' = [rollbackOn EXCEPT ![c] = NoConn]

\* the scope goes on at `at`
Goto(c, at) ==
    /\ pc' = [pc EXCEPT ![c] = at]
    /\ UNCHANGED <<req, left, commitOn, rollbackOn, outcome>>

(***************************************************************************)
(* get_cursor(commit=True, isolation_level=level) entered by caller c,     *)
(* whose with-body runs n statements (execute_query: 1, executemany of     *)
(* bulk_insert: one per row).                                              *)
(***************************************************************************)
Enter(c, level, n) ==
    /\ c \in active
    /\ pc[c] = "idle"
    /\ pc' = [pc EXCEPT ![c] = "check"]
    /\ req' = [req EXCEPT ![c] = level]
    /\ left' = [left EXCEPT ![c] = n]
    /\ lconn' = [lconn EXCEPT ![c] = NoConn]
    /\ old' = [old EXCEPT ![c] = DefaultLevel]
    /\ stmtErr' = [stmtErr EXCEPT ![c] = FALSE]
    /\ commitOn' = [commitOn EXCEPT ![c] = NoConn]
    /\ rollbackOn' = [rollbackOn EXCEPT ![c] = NoConn]
    /\ outcome' = [outcome EXCEPT ![c] = "none"]
    \* pending and durable follow the rows of the operation in flight only
    /\ pending' = [i \in ConnIds |-> pending[i] \ {c}]
    /\ durable' = durable \ {c}
    /\ UNCHANGED <<identVars, seqVars, conn, nOpened, opened, shut, iso, faults, active>>

\* get_connection, line 141: is_connected() is False when self.conn is None,
\* when self.conn is a closed connection (cursor() raises) or when `SELECT 1`
\* raises on it: because the connection is dead (its open transaction is
\* lost with it), or for another reason, the connection staying open
IsConnected(c) ==
    /\ pc[c] = "check"
    /\ \/ /\ conn = NoConn
          /\ pc' = [pc EXCEPT ![c] = "reinit"]
          /\ UNCHANGED <<faults, opened, pending>>
       \/ /\ conn # NoConn /\ conn \notin opened
          /\ pc' = [pc EXCEPT ![c] = "reinit"]
          /\ UNCHANGED <<faults, opened, pending>>
       \/ /\ conn \in opened
          /\ pc' = [pc EXCEPT ![c] = "test"]
          /\ UNCHANGED <<faults, opened, pending>>
       \/ /\ conn \in opened
          /\ CanFail
          /\ faults' = faults + 1
          /\ pc' = [pc EXCEPT ![c] = "reinit"]
          /\ \/ UNCHANGED <<opened, pending>>
             \/ /\ opened' = opened \ {conn}
                /\ pending' = [pending EXCEPT ![conn] = {}]
    /\ UNCHANGED <<identVars, seqVars, conn, nOpened, shut, iso, durable, active,
                   req, left, lconn, old, stmtErr, commitOn, rollbackOn, outcome>>

\* get_connection, line 143: self.conn = self._init_con(); the connection
\* self.conn named before is neither closed nor remembered
InitCon(c) ==
    /\ pc[c] = "reinit"
    /\ \/ /\ nOpened < MaxConns
          /\ nOpened' = nOpened + 1
          /\ conn' = nOpened + 1
          /\ opened' = opened \cup {nOpened + 1}
          /\ UNCHANGED faults
       \/ /\ CanFail
          /\ faults' = faults + 1
          /\ conn' = NoConn
          /\ UNCHANGED <<nOpened, opened>>
       \/ /\ nOpened = MaxConns
          /\ conn' = NoConn
          /\ UNCHANGED <<nOpened, opened, faults>>
    /\ pc' = [pc EXCEPT ![c] = "test"]
    /\ UNCHANGED <<identVars, seqVars, shut, iso, pending, durable, active,
                   req, left, lconn, old, stmtErr, commitOn, rollbackOn, outcome>>

\* get_connection, lines 145-149, and get_cursor, line 164: raise
\* ConnectionError when self.conn is None, else yield self.conn and record
\* its isolation level
Yield(c) ==
    /\ pc[c] = "test"
    /\ \/ /\ conn = NoConn
          /\ Leave(c, "raised")
          /\ UNCHANGED <<lconn, old>>
       \/ /\ conn # NoConn
          /\ lconn' = [lconn EXCEPT ![c] = conn]
          /\ old' = [old EXCEPT ![c] = iso[conn]]
          /\ Goto(c, "set")
    /\ UNCHANGED <<identVars, seqVars, cmdVars, stmtErr>>

\* get_cursor, lines 165-167: conn.set_isolation_level(isolation_level) and
\* cursor = conn.cursor(), both before the try block
SetLevel(c) ==
    /\ pc[c] = "set"
    /\ \/ /\ lconn[c] \in opened
          /\ iso' = [iso EXCEPT ![lconn[c]] = req[c]]
          /\ Goto(c, "body")
          /\ UNCHANGED faults
       \/ \* set_isolation_level raises
          /\ CanFail
          /\ faults' = faults + 1
          /\ Leave(c, "raised")
          /\ UNCHANGED iso
       \/ \* set_isolation_level raises: the connection is closed
          /\ lconn[c] \notin opened
          /\ Leave(c, "raised")
          /\ UNCHANGED <<iso, faults>>
       \/ \* conn.cursor() raises
          /\ lconn[c] \in opened
          /\ CanFail
          /\ faults' = faults + 1
          /\ iso' = [iso EXCEPT ![lconn[c]] = req[c]]
          /\ Leave(c, "nocursor")
    /\ UNCHANGED <<identVars, seqVars, conn, nOpened, opened, shut, pending, durable,
                   active, lconn, old, stmtErr>>

\* the with-body: one statement on the cursor of the local conn.  A statement
\* that succeeds leaves its row in the connection's open transaction; one that
\* raises sends control to the except clause of get_cursor
Statement(c) ==
    /\ pc[c] = "body"
    /\ \/ /\ lconn[c] \in opened
          /\ pending' = [pending EXCEPT ![lconn[c]] = @ \cup {c}]
          /\ left' = [left EXCEPT ![c] = @ - 1]
          /\ pc' = [pc EXCEPT ![c] = IF left[c] > 1 THEN "body" ELSE "commit"]
          /\ UNCHANGED stmtErr
       \/ /\ stmtErr' = [stmtErr EXCEPT ![c] = TRUE]
          /\ pc' = [pc EXCEPT ![c] = "rollback"]
          /\ UNCHANGED <<pending, left>>
    /\ UNCHANGED <<identVars, seqVars, conn, nOpened, opened, shut, iso, durable,
                   faults, active, req, lconn, old, commitOn, rollbackOn, outcome>>

\* get_cursor, lines 170-171, and Commander.commit: `if self.conn:
\* self.conn.commit()`, a psycopg2.Error printed and swallowed.  A commit
\* makes the open transaction of self.conn durable; a failed one loses it
Commit(c) ==
    /\ pc[c] = "commit"
    /\ \/ /\ conn = NoConn
          /\ UNCHANGED <<pending, durable, faults, commitOn>>
       \/ /\ conn \in opened
          /\ durable' = durable \cup pending[conn]
          /\ pending' = [pending EXCEPT ![conn] = {}]
          /\ commitOn' = [commitOn EXCEPT ![c] = conn]
          /\ UNCHANGED faults
       \/ /\ conn \in opened
          /\ CanFail
          /\ faults' = faults + 1
          /\ pending' = [pending EXCEPT ![conn] = {}]
          /\ commitOn' = [commitOn EXCEPT ![c] = conn]
          /\ UNCHANGED durable
       \/ \* self.conn is closed: conn.commit() raises
          /\ conn # NoConn /\ conn \notin opened
          /\ commitOn' = [commitOn EXCEPT ![c] = conn]
          /\ UNCHANGED <<pending, durable, faults>>
    /\ pc' = [pc EXCEPT ![c] = "close"]
    /\ UNCHANGED <<identVars, seqVars, conn, nOpened, opened, shut, iso, active,
                   req, left, lconn, old, stmtErr, rollbackOn, outcome>>

\* get_cursor, lines 172-174, and Commander.rollback: `if self.conn:
\* self.conn.rollback()`, a psycopg2.Error printed and swallowed; then `raise`
Rollback(c) ==
    /\ pc[c] = "rollback"
    /\ \/ /\ conn = NoConn
          /\ UNCHANGED <<pending, faults, rollbackOn>>
       \/ /\ conn \in opened
          /\ pending' = [pending EXCEPT ![conn] = {}]
          /\ rollbackOn' = [rollbackOn EXCEPT ![c] = conn]
          /\ UNCHANGED faults
       \/ /\ conn \in opened
          /\ CanFail
          /\ faults' = faults + 1
          /\ pending' = [pending EXCEPT ![conn] = {}]
          /\ rollbackOn' = [rollbackOn EXCEPT ![c] = conn]
       \/ \* self.conn is closed: conn.rollback() raises
          /\ conn # NoConn /\ conn \notin opened
          /\ rollbackOn' = [rollbackOn EXCEPT ![c] = conn]
          /\ UNCHANGED <<pending, faults>>
    /\ pc' = [pc EXCEPT ![c] = "close"]
    /\ UNCHANGED <<identVars, seqVars, conn, nOpened, opened, shut, iso, durable, active,
                   req, left, lconn, old, stmtErr, commitOn, outcome>>

\* get_cursor, line 176: cursor.close(), the first statement of the finally
\* block; when it raises, line 177 is not reached
CloseCursor(c) ==
    /\ pc[c] = "close"
    /\ \/ /\ Goto(c, "restore")
          /\ UNCHANGED faults
       \/ /\ CanFail
          /\ faults' = faults + 1
          /\ Leave(c, "raised")
    /\ UNCHANGED <<identVars, seqVars, conn, nOpened, opened, shut, iso, pending,
                   durable, active, lconn, old, stmtErr>>

\* get_cursor, line 177: conn.set_isolation_level(old_isolation); the scope
\* then ends, with the statement's exception when one is propagating
Restore(c) ==
    /\ pc[c] = "restore"
    /\ \/ /\ lconn[c] \in opened
          /\ iso' = [iso EXCEPT ![lconn[c]] = old[c]]
          /\ Leave(c, IF stmtErr[c] THEN "raised" ELSE "ok")
          /\ UNCHANGED faults
       \/ /\ CanFail
          /\ faults' = faults + 1
          /\ Leave(c, "raised")
          /\ UNCHANGED iso
       \/ \* the connection is closed: set_isolation_level raises
          /\ lconn[c] \notin opened
          /\ Leave(c, "raised")
          /\ UNCHANGED <<iso, faults>>
    /\ UNCHANGED <<identVars, seqVars, conn, nOpened, opened, shut, pending, durable,
                   active,
                   lconn, old, stmtErr>>

(***************************************************************************)
(* Spec: one Commander, shared by one caller or by all of them.            *)
(***************************************************************************)
Init ==
    /\ name = <<>>
    /\ identOut = "none"
    /\ Constructed(TRUE)
    /\ active \in {{1}, Callers}
    /\ ScopesIdle
    /\ SeqIdle

Next ==
    \E c \in Callers :
        \/ \E level \in Levels, n \in 1..MaxStmts : Enter(c, level, n)
        \/ IsConnected(c)
        \/ InitCon(c)
        \/ Yield(c)
        \/ SetLevel(c)
        \/ Statement(c)
        \/ Commit(c)
        \/ Rollback(c)
        \/ CloseCursor(c)
        \/ Restore(c)

Spec == Init /\ [][Next]_vars

(***************************************************************************)
(* Claims about the transaction scope, checked under Spec.                 *)
(***************************************************************************)

\* C1: for every get_cursor scope entered with commit=True: when the body's
\* statements complete without raising, a commit has been issued on a
\* connection and no rollback; when a statement raises, a rollback has been
\* issued, no commit, and the scope ends by raising.
C1_CommitOrRollback ==
    \A c \in Callers :
        /\ pc[c] = "close" /\ ~stmtErr[c] =>
              commitOn[c] # NoConn /\ rollbackOn[c] = NoConn
        /\ pc[c] = "close" /\ stmtErr[c] =>
              rollbackOn[c] # NoConn /\ commitOn[c] = NoConn
        /\ pc[c] = "idle" /\ stmtErr[c] => outcome[c] = "raised"

\* C2: with a single caller, whenever a get_cursor scope has exited, normally,
\* by a statement error, or by a failure while setting the isolation level,
\* committing, rolling back or closing the cursor, the isolation level of the
\* connection it held equals the level recorded when the scope was entered.
C2_LevelRestoredOnExit ==
    \A c \in Callers :
        active = {c} /\ pc[c] = "idle" /\ outcome[c] \in {"ok", "raised"}
                     /\ lconn[c] # NoConn
            => iso[lconn[c]] = old[c]

\* C3: a connection is held by at most one scope at a time: two callers
\* whose scopes are open never hold the same connection.
C3_ExclusiveLease ==
    \A a, b \in Callers :
        a # b /\ InScope(a) /\ InScope(b) => lconn[a] # lconn[b]

\* C4: when two or more callers have run scopes concurrently and all have
\* exited (no library call having failed), every connection is back at the
\* level it had before any of them began.
C4_LevelRestoredAfterAll ==
    Cardinality(active) >= 2 /\ faults = 0 /\ (\A c \in active : pc[c] = "idle")
        => \A i \in ConnIds : iso[i] = DefaultLevel

\* C9: a bulk operation is all-or-nothing: once a scope in which the store
\* rejected a statement has exited (no library call having failed), none of
\* its rows, the ones written before the rejected one included, is committed.
C9_AllOrNothing ==
    \A c \in Callers :
        pc[c] = "idle" /\ stmtErr[c] /\ faults = 0 => c \notin durable

\* C14: when every operation has completed and the Commander holds a
\* connection, it owns no more open connections than the one it had after
\* construction, and no connection is open without self.conn naming it.
C14_ConnectionsConserved ==
    (\A c \in Callers : pc[c] = "idle") /\ conn # NoConn
        => opened \subseteq {conn} /\ Cardinality(opened) <= 1

\* C18: a scope run by a single caller ends normally (execute_query and
\* bulk_insert then return rows or a row count) only if its commit succeeded,
\* that is, its rows are committed.
C18_SuccessOnlyIfCommitted ==
    \A c \in Callers :
        active = {c} /\ pc[c] = "idle" /\ outcome[c] = "ok" => c \in durable

(***************************************************************************)
(* Names, values and the statements the Commander builds.                  *)
(***************************************************************************)
\* str.upper() on the characters of a name
UpperChar(ch) ==
    IF ch \in Lower
    THEN UpperSeq[CHOOSE i \in DOMAIN LowerSeq : LowerSeq[i] = ch]
    ELSE ch

ToUpper(s) == [i \in DOMAIN s |-> UpperChar(s[i])]

\* `kw in s` for Python strings: kw occurs in s as a substring
Contains(s, kw) ==
    \E i \in 0..(Len(s) - Len(kw)) : \A j \in 1..Len(kw) : s[i + j] = kw[j]

\* the keyword list of create_table, line 248
Keywords == {
    <<"U","N","I","Q","U","E">>,
    <<"P","R","I","M","A","R","Y"," ","K","E","Y">>,
    <<"F","O","R","E","I","G","N"," ","K","E","Y">>,
    <<"C","H","E","C","K">> }

\* line 248: any(keyword in col_name.upper() for keyword in [...])
HasKeyword(s) == \E kw \in Keywords : Contains(ToUpper(s), kw)

Whitespace == {" ", "\n", "\t"}

\* line 246: `if col_type.strip()`, a descriptor with a non-blank character
HasText(s) == \E i \in DOMAIN s : s[i] \notin Whitespace

\* the table and the columns of the schema of lines 527-532:
\* symbol VARCHAR(10) NOT NULL UNIQUE, indicator_type VARCHAR(25)
Tbl == <<"s","t","o","c","k","_","i","n","d","i","c","a","t","o","r","s">>
SymbolCol == <<"s","y","m","b","o","l">>
KindCol == <<"i","n","d","i","c","a","t","o","r","_","t","y","p","e">>
\* a table-level constraint clause, as the key of line 523
UniqueClause == <<"U","N","I","Q","U","E"," ","(","s","y","m","b","o","l",")">>
\* names that are no identifiers
BadTbl == <<"t",";","-","-">>
BadCol == <<"1","x">>
\* a column key that embeds a constraint keyword and more SQL
Injected == <<"x"," ","I","N","T"," ","C","H","E","C","K"," ","(","x",">","0",")",
              ")",";"," ","D","R","O","P"," ","T","A","B","L","E"," ","t",";","-","-">>

\* the descriptors of lines 529-530
SymbolType == <<"V","A","R","C","H","A","R","(","1","0",")"," ","N","O","T"," ",
                "N","U","L","L"," ","U","N","I","Q","U","E">>
KindType == <<"V","A","R","C","H","A","R","(","2","5",")">>
BlankType == <<" ">>
EmptyType == <<>>

\* one statement as handed to cursor.execute: the quoted identifiers
\* (sql.Identifier), the raw text spliced in (sql.SQL), the conflict clause
\* and the bound parameters
Stmt(kind, table, cols, clause, target, updates, ifne, raw, params) ==
    [kind |-> kind, table |-> table, cols |-> cols, clause |-> clause,
     target |-> target, updates |-> updates, ifNotExists |-> ifne,
     raw |-> raw, params |-> params]

\* is_connected, line 93: cur.execute('SELECT 1')
ProbeStmt == Stmt("SELECT 1", <<>>, <<>>, "none", <<>>, <<>>, FALSE, <<>>, <<>>)

\* create_table, lines 244-253: the column definitions, a column as
\* [name, type] and a table constraint as [name, <<>>]
RECURSIVE ColDefs(_)
ColDefs(cols) ==
    IF cols = <<>> THEN <<>>
    ELSE LET e == Head(cols) IN
         <<(IF HasText(e[2]) THEN e ELSE <<e[1], <<>>>>)>> \o ColDefs(Tail(cols))

\* create_table, lines 245-249: a column key is validated when its descriptor
\* has text and the key embeds none of the keywords
ColsValid(cols) ==
    \A i \in DOMAIN cols :
        HasText(cols[i][2]) /\ ~HasKeyword(cols[i][1]) => IdentOk(cols[i][1])

\* create_table with line 264's template on both branches of line 258
CreateStmtPlain(table, cols, ifne) ==
    Stmt("CREATE TABLE", table, <<>>, "none", <<>>, <<>>, FALSE, ColDefs(cols), <<>>)

\* create_table, lines 258-267
CreateStmt(table, cols, ifne) ==
    Stmt("CREATE TABLE", table, <<>>, "none", <<>>, <<>>, ifne, ColDefs(cols), <<>>)

\* the keys and the values of a dict, in insertion order
DictKeys(d) == [i \in DOMAIN d |-> d[i][1]]
DictVals(d) == [i \in DOMAIN d |-> d[i][2]]

\* enter_record, lines 295-310: ON CONFLICT DO UPDATE SET with every column,
\* and no conflict target
UpsertStmt(table, values) ==
    Stmt("INSERT", table, DictKeys(values), "DO UPDATE", <<>>, DictKeys(values),
         FALSE, <<>>, DictVals(values))

\* [c for c in columns if c not in conflict_columns], line 361
RECURSIVE Without(_, _)
Without(columns, cc) ==
    IF columns = <<>> THEN <<>>
    ELSE (IF Head(columns) \in Range(cc) THEN <<>> ELSE <<Head(columns)>>)
         \o Without(Tail(columns), cc)

\* bulk_insert with the `elif conflict_columns` branch of line 375 building
\* the clause of line 364
BulkStmtNoIgnore(table, columns, cc, upsert, row) ==
    IF upsert \/ cc # <<>>
    THEN Stmt("INSERT", table, columns, "DO UPDATE", cc, Without(columns, cc),
              FALSE, <<>>, row)
    ELSE Stmt("INSERT", table, columns, "none", <<>>, <<>>, FALSE, <<>>, row)

\* bulk_insert, lines 352-383: the statement executemany runs with each row;
\* cc is <<>> for conflict_columns=None
BulkStmt(table, columns, cc, upsert, row) ==
    IF upsert
    THEN Stmt("INSERT", table, columns, "DO UPDATE", cc, Without(columns, cc),
              FALSE, <<>>, row)
    ELSE IF cc # <<>>
    THEN Stmt("INSERT", table, columns, "DO NOTHING", cc, <<>>, FALSE, <<>>, row)
    ELSE Stmt("INSERT", table, columns, "none", <<>>, <<>>, FALSE, <<>>, row)

\* delete_table, lines 446-448
DropStmt(table) ==
    Stmt("DROP TABLE", table, <<>>, "none", <<>>, <<>>, TRUE, <<>>, <<>>)

\* table_exists, lines 478-486: the name is a bound parameter
ExistsStmt(table) ==
    Stmt("SELECT EXISTS", <<>>, <<>>, "none", <<>>, <<>>, FALSE, <<>>, <<table>>)

\* list_tables, lines 208-214
ListStmt == Stmt("SELECT table_name", <<>>, <<>>, "none", <<>>, <<>>, FALSE, <<>>, <<>>)

(***************************************************************************)
(* The store on the statements it is sent.                                 *)
(***************************************************************************)
\* the columns of the table of lines 527-532 that callers write
TableCols == {SymbolCol, KindCol}

\* PostgreSQL on the definitions of a CREATE TABLE: a column is an identifier
\* and a type, a table constraint is UNIQUE (symbol) on a column of the table;
\* anything else (a second statement that drops a table the store does not
\* have included) is an error
DefAccepted(raw, e) ==
    IF e[2] # <<>>
    THEN IdentOk(e[1]) /\ e[1] \in TableCols /\ e[2] \in {SymbolType, KindType}
    ELSE e[1] = UniqueClause /\ \E i \in DOMAIN raw : raw[i][1] = SymbolCol

\* the columns a CREATE TABLE defines
ColumnsOf(raw) == { raw[i][1] : i \in { j \in DOMAIN raw : raw[j][2] # <<>> } }

\* every table the store accepts from SchemaPool keeps symbol unique, by the
\* descriptor of line 529 or by the UNIQUE (symbol) clause
CreateRejected(raw) ==
    \/ \E i \in DOMAIN raw : ~DefAccepted(raw, raw[i])
    \/ SymbolCol \notin ColumnsOf(raw)

\* the position of column col in cols
IndexOf(cols, col) == CHOOSE i \in DOMAIN cols : cols[i] = col

StoreOk(d, n, val) == [ok |-> TRUE, db |-> d, n |-> n, val |-> val, isRows |-> FALSE]
StoreRows(d, n, val) == [ok |-> TRUE, db |-> d, n |-> n, val |-> val, isRows |-> TRUE]
StoreError(d) == [ok |-> FALSE, db |-> d, n |-> -1, val |-> FALSE, isRows |-> FALSE]

\* PostgreSQL on one INSERT: a conflict action without a conflict target, an
\* empty SET list, an unknown table or column, a conflict target that no
\* unique constraint matches, a NULL symbol, a value too long for its column
\* and (with no conflict clause) a duplicate symbol are errors
InsertRejected(d, st) ==
    \/ ~d.exists
    \/ st.cols = <<>>
    \/ \E i \in DOMAIN st.cols : st.cols[i] \notin d.cols
    \/ st.clause = "DO UPDATE" /\ st.target = <<>>
    \/ st.clause = "DO UPDATE" /\ st.updates = <<>>
    \/ st.clause # "none" /\ st.target # <<>> /\ Range(st.target) # {SymbolCol}
    \/ SymbolCol \notin Range(st.cols)
    \/ \E i \in DOMAIN st.cols : st.cols[i] = KindCol /\ st.params[i] = TooLong
    \/ st.clause = "none" /\ d.rows[st.params[IndexOf(st.cols, SymbolCol)]] # "absent"

ExecInsert(d, st) ==
    IF InsertRejected(d, st) THEN StoreError(d)
    ELSE LET k == st.params[IndexOf(st.cols, SymbolCol)]
             v == IF KindCol \in Range(st.cols)
                  THEN st.params[IndexOf(st.cols, KindCol)] ELSE "NULL"
         IN  IF d.rows[k] = "absent"
             THEN StoreOk([d EXCEPT !.rows[k] = v], 1, FALSE)
             ELSE IF st.clause = "DO NOTHING" THEN StoreOk(d, 0, FALSE)
             ELSE IF KindCol \in Range(st.updates)
                  THEN StoreOk([d EXCEPT !.rows[k] = v], 1, FALSE)
                  ELSE StoreOk(d, 1, FALSE)

\* the store on one statement, inside the connection's open transaction
ExecOne(d, st) ==
    CASE st.kind = "INSERT" -> ExecInsert(d, st)
      [] st.kind = "CREATE TABLE" ->
            IF CreateRejected(st.raw) THEN StoreError(d)
            ELSE IF ~d.exists
            THEN StoreOk([exists |-> TRUE, cols |-> ColumnsOf(st.raw),
                          rows |-> NoRows], -1, FALSE)
            ELSE IF st.ifNotExists THEN StoreOk(d, -1, FALSE)
            ELSE StoreError(d)
      [] st.kind = "DROP TABLE" -> StoreOk(NoTable, -1, FALSE)
      [] st.kind = "SELECT EXISTS" -> StoreRows(d, 1, d.exists /\ st.params[1] = Tbl)
      [] st.kind = "SELECT table_name" -> StoreRows(d, IF d.exists THEN 1 ELSE 0, d.exists)
      [] OTHER -> StoreRows(d, 1, TRUE)

(***************************************************************************)
(* The public operations, run by a single caller from start to end.        *)
(* cx.had: self.conn is a connection when the call starts; cx.can:         *)
(* get_connection yields one (self.conn, or the one _init_con opens).      *)
(***************************************************************************)
\* what a call gives its caller: tag "None", "int" (n), "rows" (n rows, the
\* first row's first column in val), "list" (n names), "bool" (val), or the
\* name of the exception it raised
Returns(tag, n, val) == [tag |-> tag, n |-> n, val |-> val]
Raises(exc) == Returns(exc, 0, FALSE)
RetNone == Returns("None", 0, FALSE)

Outcome(d, r, s, used) == [db |-> d, ret |-> r, sent |-> s, used |-> used]

\* is_connected probes the connection with SELECT 1 when there is one
Probe(cx) == IF cx.had THEN <<ProbeStmt>> ELSE <<>>

\* execute_query, lines 184-196: rows or the row count when the statement
\* ran and the scope committed; None when the store raised (after rollback);
\* the ConnectionError of get_connection is not caught
ExecuteQuery(d, cx, st, fetch) ==
    IF ~cx.can THEN Outcome(d, Raises("ConnectionError"), Probe(cx), TRUE)
    ELSE LET r == ExecOne(d, st) IN
         IF r.ok
         THEN Outcome(r.db,
                      IF r.isRows /\ fetch THEN Returns("rows", r.n, r.val)
                      ELSE Returns("int", r.n, FALSE),
                      Probe(cx) \o <<st>>, TRUE)
         ELSE Outcome(d, RetNone, Probe(cx) \o <<st>>, TRUE)

\* create_table, lines 236-273
CreateTable(d, cx, table, cols, ifne) ==
    IF ~IdentOk(table) THEN Outcome(d, Raises("ValueError"), <<>>, FALSE)
    ELSE IF cols = <<>> THEN Outcome(d, RetNone, <<>>, FALSE)
    ELSE IF ~ColsValid(cols) THEN Outcome(d, Raises("ValueError"), <<>>, FALSE)
    ELSE LET o == ExecuteQuery(d, cx, CreateStmt(table, cols, ifne), FALSE) IN
         IF o.ret.tag = "ConnectionError" THEN o
         ELSE Outcome(o.db, RetNone, o.sent, TRUE)

\* enter_record, lines 286-312
EnterRecord(d, cx, table, values) ==
    IF ~IdentOk(table) THEN Outcome(d, Raises("ValueError"), <<>>, FALSE)
    ELSE IF values = <<>> THEN Outcome(d, Raises("ValueError"), <<>>, FALSE)
    ELSE IF \E i \in DOMAIN values : ~IdentOk(values[i][1])
         THEN Outcome(d, Raises("ValueError"), <<>>, FALSE)
    ELSE ExecuteQuery(d, cx, UpsertStmt(table, values), FALSE)

\* cursor.executemany, line 386: the statement once per row, in order, in one
\* transaction; it stops at the first row the store rejects.  n is the sum of
\* the row counts
RECURSIVE ExecMany(_, _, _, _, _, _, _, _)
ExecMany(d, table, columns, cc, upsert, rows, n, log) ==
    IF rows = <<>> THEN [ok |-> TRUE, db |-> d, n |-> n, sent |-> log]
    ELSE LET st == BulkStmt(table, columns, cc, upsert, Head(rows))
             r == ExecOne(d, st)
         IN  IF r.ok
             THEN ExecMany(r.db, table, columns, cc, upsert, Tail(rows),
                           n + r.n, Append(log, st))
             ELSE [ok |-> FALSE, db |-> d, n |-> n, sent |-> Append(log, st)]

\* bulk_insert without the early return of lines 335-336
BulkInsertNoEarlyReturn(d, cx, table, columns, rows, cc, upsert) ==
    IF ~IdentOk(table) \/ (\E i \in DOMAIN columns : ~IdentOk(columns[i]))
    THEN Outcome(d, Raises("ValueError"), <<>>, FALSE)
    ELSE IF upsert /\ cc = <<>> THEN Outcome(d, Raises("ValueError"), <<>>, FALSE)
    ELSE IF \E i \in DOMAIN cc : ~IdentOk(cc[i])
         THEN Outcome(d, Raises("ValueError"), <<>>, FALSE)
    ELSE IF ~cx.can THEN Outcome(d, Raises("ConnectionError"), Probe(cx), TRUE)
    ELSE LET r == ExecMany(d, table, columns, cc, upsert, rows, 0, Probe(cx)) IN
         IF r.ok
         THEN Outcome(r.db, Returns("int", r.n, FALSE), r.sent, TRUE)
         ELSE Outcome(d, Returns("int", 0, FALSE), r.sent, TRUE)

\* bulk_insert, lines 330-391; cc is <<>> for conflict_columns=None
BulkInsert(d, cx, table, columns, rows, cc, upsert) ==
    IF ~IdentOk(table) \/ (\E i \in DOMAIN columns : ~IdentOk(columns[i]))
    THEN Outcome(d, Raises("ValueError"), <<>>, FALSE)
    ELSE IF rows = <<>> THEN Outcome(d, Returns("int", 0, FALSE), <<>>, FALSE)
    ELSE IF upsert /\ cc = <<>> THEN Outcome(d, Raises("ValueError"), <<>>, FALSE)
    ELSE IF \E i \in DOMAIN cc : ~IdentOk(cc[i])
         THEN Outcome(d, Raises("ValueError"), <<>>, FALSE)
    ELSE IF ~cx.can THEN Outcome(d, Raises("ConnectionError"), Probe(cx), TRUE)
    ELSE LET r == ExecMany(d, table, columns, cc, upsert, rows, 0, Probe(cx)) IN
         IF r.ok
         THEN Outcome(r.db, Returns("int", r.n, FALSE), r.sent, TRUE)
         \* the except clause of get_cursor rolls back, bulk_insert returns 0
         ELSE Outcome(d, Returns("int", 0, FALSE), r.sent, TRUE)

\* record[col] for a dict held as a sequence of <<key, value>> pairs
Lookup(rec, col) == rec[CHOOSE i \in DOMAIN rec : rec[i][1] = col][2]

\* bulk_insert_dicts, lines 424-434: the columns are the keys of the first
\* record; record[col] raises KeyError when a record lacks one of them, and a
\* key the first record does not have is not looked at
BulkInsertDicts(d, cx, table, records, cc, upsert) ==
    IF records = <<>> THEN Outcome(d, Returns("int", 0, FALSE), <<>>, FALSE)
    ELSE LET columns == DictKeys(records[1]) IN
         IF \E i \in DOMAIN records : \E j \in DOMAIN columns :
                columns[j] \notin Range(DictKeys(records[i]))
         THEN Outcome(d, Raises("KeyError"), <<>>, FALSE)
         ELSE BulkInsert(d, cx, table, columns,
                         [i \in DOMAIN records |->
                             [j \in DOMAIN columns |-> Lookup(records[i], columns[j])]],
                         cc, upsert)

\* delete_table, lines 443-453
DeleteTable(d, cx, table) ==
    IF ~IdentOk(table) THEN Outcome(d, Raises("ValueError"), <<>>, FALSE)
    ELSE LET o == ExecuteQuery(d, cx, DropStmt(table), FALSE) IN
         \* `except Exception` also catches the ConnectionError
         Outcome(o.db, RetNone, o.sent, TRUE)

\* table_exists, lines 476-487
TableExists(d, cx, table) ==
    IF ~IdentOk(table) THEN Outcome(d, Raises("ValueError"), <<>>, FALSE)
    ELSE LET o == ExecuteQuery(d, cx, ExistsStmt(table), TRUE) IN
         IF o.ret.tag = "ConnectionError" THEN o
         ELSE Outcome(o.db, Returns("bool", 0, o.ret.tag = "rows" /\ o.ret.val),
                      o.sent, TRUE)

\* list_tables, lines 208-225
ListTables(d, cx) ==
    LET o == ExecuteQuery(d, cx, ListStmt, TRUE) IN
    IF o.ret.tag = "ConnectionError" THEN o
    ELSE Outcome(o.db, Returns("list", IF o.ret.tag = "rows" THEN o.ret.n ELSE 0, FALSE),
                 o.sent, TRUE)

(***************************************************************************)
(* SpecSeq: a single caller runs the public operations one after another   *)
(* on a Commander whose construction found the store or did not.           *)
(***************************************************************************)
MaxBatch == 2

TablePool == {Tbl, BadTbl}

\* the cols argument of create_table: a dict as a sequence of <<key, type>>
SchemaPool == {
    <<>>,
    << <<SymbolCol, SymbolType>>, <<KindCol, KindType>> >>,
    << <<SymbolCol, KindType>>, <<UniqueClause, EmptyType>> >>,
    << <<SymbolCol, KindType>>, <<UniqueClause, BlankType>> >>,
    << <<SymbolCol, SymbolType>>, <<Injected, KindType>> >>,
    << <<BadCol, KindType>> >>,
    << <<BadCol, EmptyType>> >> }

\* records: dicts as sequences of <<column, value>>
RecordPool ==
    {<<>>, << <<BadCol, "AAPL">> >>}
    \cup { << <<SymbolCol, k>> >> : k \in Keys }
    \cup { << <<KindCol, v>> >> : v \in Vals }
    \cup { << <<SymbolCol, k>>, <<KindCol, v>> >> : k \in Keys, v \in Vals \cup {TooLong} }

SeqsOf(S, n) == UNION { [1..k -> S] : k \in 0..n }

ColumnsPool == {<<>>, <<SymbolCol>>, <<SymbolCol, KindCol>>, <<BadCol>>}

\* the value tuples of bulk_insert for a column list, one value per column
RowPool(columns) ==
    IF columns = <<SymbolCol, KindCol>>
    THEN { <<k, v>> : k \in Keys, v \in Vals \cup {TooLong} }
    ELSE IF columns = <<>> THEN {<<>>}
    ELSE { <<k>> : k \in Keys }

CcPool == {<<>>, <<SymbolCol>>, <<KindCol>>, <<BadCol>>}

\* get_connection as a call meets it: self.conn, or (when it is None or
\* closed) the connection _init_con opens, or none
Cx(reconnect) ==
    [had |-> conn \in opened,
     can |-> conn \in opened \/ (reconnect /\ nOpened < MaxConns)]

\* the call has run: its result, the statements it sent, the store after it,
\* and self.conn when get_connection had to reopen it
Ran(c, out, reconnect) ==
    /\ call' = c
    /\ \E o \in {out} :
          /\ db' = o.db
          /\ ret' = o.ret
          /\ sent' = o.sent
          /\ IF o.used /\ conn \notin opened
             THEN IF reconnect /\ nOpened < MaxConns
                  THEN /\ conn' = nOpened + 1
                       /\ nOpened' = nOpened + 1
                       /\ opened' = opened \cup {nOpened + 1}
                  ELSE /\ conn' = NoConn
                       /\ UNCHANGED <<nOpened, opened>>
             ELSE UNCHANGED <<conn, nOpened, opened>>
    /\ UNCHANGED <<identVars, scopeVars, shut, iso, pending, durable, faults, active>>

\* whether _init_con finds the store matters when self.conn is None or closed
Reconnects == IF conn \notin opened THEN BOOLEAN ELSE {FALSE}

CallCreateTable ==
    /\ call.op = "none"
    /\ \E reconnect \in Reconnects, table \in TablePool, cols \in SchemaPool,
          ifne \in BOOLEAN :
          Ran([NoCall EXCEPT !.op = "create_table", !.table = table,
                             !.cols = cols, !.ifne = ifne],
              CreateTable(db, Cx(reconnect), table, cols, ifne), reconnect)

CallEnterRecord ==
    /\ call.op = "none"
    /\ \E reconnect \in Reconnects, table \in TablePool, values \in RecordPool :
          Ran([NoCall EXCEPT !.op = "enter_record", !.table = table,
                             !.values = values],
              EnterRecord(db, Cx(reconnect), table, values), reconnect)

CallBulkInsert ==
    /\ call.op = "none"
    /\ \E reconnect \in Reconnects, table \in TablePool, columns \in ColumnsPool,
          cc \in CcPool, upsert \in BOOLEAN :
          \E rows \in SeqsOf(RowPool(columns), MaxBatch) :
              Ran([NoCall EXCEPT !.op = "bulk_insert", !.table = table,
                                 !.columns = columns, !.rows = rows, !.cc = cc,
                                 !.upsert = upsert],
                  BulkInsert(db, Cx(reconnect), table, columns, rows, cc, upsert),
                  reconnect)

CallBulkInsertDicts ==
    /\ call.op = "none"
    /\ \E reconnect \in Reconnects, table \in TablePool, cc \in CcPool,
          upsert \in BOOLEAN :
          \E records \in SeqsOf(RecordPool \ {<<>>}, MaxBatch) :
              Ran([NoCall EXCEPT !.op = "bulk_insert_dicts", !.table = table,
                                 !.records = records, !.cc = cc, !.upsert = upsert],
                  BulkInsertDicts(db, Cx(reconnect), table, records, cc, upsert),
                  reconnect)

CallDeleteTable ==
    /\ call.op = "none"
    /\ \E reconnect \in Reconnects, table \in TablePool :
          Ran([NoCall EXCEPT !.op = "delete_table", !.table = table],
              DeleteTable(db, Cx(reconnect), table), reconnect)

CallTableExists ==
    /\ call.op = "none"
    /\ \E reconnect \in Reconnects, table \in TablePool :
          Ran([NoCall EXCEPT !.op = "table_exists", !.table = table],
              TableExists(db, Cx(reconnect), table), reconnect)

CallListTables ==
    /\ call.op = "none"
    /\ \E reconnect \in Reconnects :
          Ran([NoCall EXCEPT !.op = "list_tables"], ListTables(db, Cx(reconnect)),
              reconnect)

\* close (lines 115-129) and close_all_connections (lines 489-491):
\* self.conn.close() when self.conn is a connection; self.conn keeps naming
\* the closed connection object
CallClose ==
    /\ call.op = "none"
    /\ call' = [NoCall EXCEPT !.op = "close"]
    /\ ret' = RetNone
    /\ sent' = <<>>
    /\ opened' = opened \ {conn}
    /\ shut' = TRUE
    /\ UNCHANGED <<identVars, scopeVars, db, conn, nOpened, iso, pending, durable,
                   faults, active>>

\* the caller has its result and goes on to its next call
NextCall ==
    /\ call.op # "none"
    /\ call' = NoCall
    /\ ret' = [tag |-> "none", n |-> 0, val |-> FALSE]
    /\ sent' = <<>>
    /\ UNCHANGED <<identVars, cmdVars, scopeVars, db>>

InitSeq ==
    /\ name = <<>>
    /\ identOut = "none"
    /\ \E ok \in BOOLEAN : Constructed(ok)
    /\ active = {1}
    /\ ScopesIdle
    /\ SeqIdle

NextSeq ==
    \/ CallCreateTable
    \/ CallEnterRecord
    \/ CallBulkInsert
    \/ CallBulkInsertDicts
    \/ CallDeleteTable
    \/ CallTableExists
    \/ CallListTables
    \/ CallClose
    \/ NextCall

SpecSeq == InitSeq /\ [][NextSeq]_vars

\* C6: in every statement that create_table, enter_record, bulk_insert,
\* delete_table or table_exists sends, each table name and each column name
\* that appears as SQL text passes _check_ident and the caller's values are
\* the bound parameters; a call with a table name or a column name that
\* fails _check_ident sends no statement.
C6_OnlyValidatedNames ==
    call.op \in {"create_table", "enter_record", "bulk_insert", "delete_table",
                 "table_exists"} =>
        /\ \A i \in DOMAIN sent :
              /\ sent[i].table # <<>> => IdentOk(sent[i].table)
              /\ \A j \in DOMAIN sent[i].cols : IdentOk(sent[i].cols[j])
              /\ \A j \in DOMAIN sent[i].target : IdentOk(sent[i].target[j])
              /\ \A j \in DOMAIN sent[i].updates : IdentOk(sent[i].updates[j])
              /\ \A j \in DOMAIN sent[i].raw :
                    sent[i].raw[j][2] # <<>> => IdentOk(sent[i].raw[j][1])
              /\ sent[i].kind = "INSERT" /\ call.op = "enter_record"
                    => sent[i].params = DictVals(call.values)
              /\ sent[i].kind = "INSERT" /\ call.op = "bulk_insert"
                    => sent[i].params \in Range(call.rows)
        /\ (\/ ~IdentOk(call.table)
            \/ \E j \in DOMAIN call.cols :
                  HasText(call.cols[j][2]) /\ ~IdentOk(call.cols[j][1])
            \/ \E j \in DOMAIN call.values : ~IdentOk(call.values[j][1])
            \/ \E j \in DOMAIN call.columns : ~IdentOk(call.columns[j]))
           => sent = <<>>

\* C7: enter_record takes no conflict columns, so no call supplies any: no
\* call sends an upsert statement, and an upsert statement that is sent
\* names its conflict columns in ON CONFLICT.
C7_ConflictColumnsRequired ==
    call.op = "enter_record" =>
        \A i \in DOMAIN sent :
            sent[i].kind = "INSERT" => sent[i].target # <<>>

\* C8: after enter_record(stock_indicators, {symbol: k, indicator_type: v})
\* on the table keyed on symbol, with a connection to run it on, the table
\* holds the row of k with indicator_type v, whatever was written for k
\* before.
C8_UpsertLastWriteWins ==
    \A k \in Keys, v \in Vals :
        /\ call.op = "enter_record"
        /\ call.table = Tbl
        /\ call.values = << <<SymbolCol, k>>, <<KindCol, v>> >>
        /\ db.exists /\ db.cols = TableCols
        /\ ret.tag # "ConnectionError"
        => db.rows[k] = v

\* C10: bulk_insert and bulk_insert_dicts with upsert=True and
\* conflict_columns=[symbol], given K records over the same columns of the
\* table keyed on symbol (values the columns can hold, a connection to run
\* on), return K, and the row of each key carries the values of the last
\* record of the batch with that key.
C10_BulkUpsertCountsAll ==
    LET isDicts == call.op = "bulk_insert_dicts"
        columns == IF isDicts THEN DictKeys(call.records[1]) ELSE call.columns
        K == IF isDicts THEN Len(call.records) ELSE Len(call.rows)
        row(i) == IF isDicts THEN DictVals(call.records[i]) ELSE call.rows[i]
        key(i) == row(i)[IndexOf(columns, SymbolCol)]
        last(k) == CHOOSE i \in 1..K :
                       key(i) = k /\ \A j \in (i + 1)..K : key(j) # k
    IN  /\ call.op \in {"bulk_insert", "bulk_insert_dicts"}
        /\ call.upsert /\ call.cc = <<SymbolCol>> /\ call.table = Tbl
        /\ K >= 1
        /\ isDicts => \A i \in 1..K : DictKeys(call.records[i]) = columns
        /\ SymbolCol \in Range(columns) /\ Range(columns) \subseteq db.cols
        /\ db.exists
        /\ \A i \in 1..K : TooLong \notin Range(row(i))
        /\ ret.tag # "ConnectionError"
        => /\ ret.tag = "int" /\ ret.n = K
           /\ \A i \in 1..K :
                 db.rows[key(i)] =
                     (IF KindCol \in Range(columns)
                      THEN row(last(key(i)))[IndexOf(columns, KindCol)]
                      ELSE db.rows[key(i)]) /\ db.rows[key(i)] # "absent"

\* C11: when a record of bulk_insert_dicts has a set of keys other than the
\* first record's (a key missing, or an extra key), the call raises and sends
\* no statement.
C11_HeterogeneousRejected ==
    /\ call.op = "bulk_insert_dicts"
    /\ \E i \in DOMAIN call.records :
          Range(DictKeys(call.records[i])) # Range(DictKeys(call.records[1]))
    => ret.tag \in {"ValueError", "KeyError"} /\ sent = <<>>

\* C12 as stated: bulk_insert and bulk_insert_dicts with an empty list return
\* 0 and send nothing, whatever the other arguments are.
C12_EmptyReturnsZero ==
    \/ call.op = "bulk_insert" /\ call.rows = <<>>
    \/ call.op = "bulk_insert_dicts" /\ call.records = <<>>
    => ret = Returns("int", 0, FALSE) /\ sent = <<>>

\* C12, amended: with an empty list, bulk_insert_dicts (whatever the other
\* arguments are) and bulk_insert (when the table name and the column names
\* are identifiers) return 0, and bulk_insert with a name that is none raises
\* ValueError; in all three cases nothing is sent, self.conn and the
\* connections are as before, and so is the store.
C12_EmptyIsNoOp ==
    [][LET names == IdentOk(call'.table)
                    /\ \A i \in DOMAIN call'.columns : IdentOk(call'.columns[i])
       IN  (\/ call'.op = "bulk_insert" /\ call'.rows = <<>>
            \/ call'.op = "bulk_insert_dicts" /\ call'.records = <<>>)
           => /\ ret' = (IF call'.op = "bulk_insert" /\ ~names
                         THEN Raises("ValueError")
                         ELSE Returns("int", 0, FALSE))
              /\ sent' = <<>>
              /\ UNCHANGED <<db, conn, nOpened, opened>>]_vars

\* bulk_insert with no rows, upsert=True and no conflict columns has returned
\* 0 on a Commander that has no connection
C12_Witness ==
    /\ call.op = "bulk_insert" /\ call.rows = <<>>
    /\ call.upsert /\ call.cc = <<>> /\ call.table = Tbl
    /\ conn = NoConn
    /\ ret = Returns("int", 0, FALSE)

\* C13: every INSERT of bulk_insert carries the conflict clause of its mode:
\* upsert (upsert=True): ON CONFLICT (conflict_columns) DO UPDATE; ignore
\* (upsert=False with conflict_columns): ON CONFLICT (conflict_columns) DO
\* NOTHING; fail (upsert=False, no conflict_columns): no conflict clause.
C13_ModeSelectsClause ==
    call.op \in {"bulk_insert", "bulk_insert_dicts"} =>
        LET mode == IF call.upsert THEN "upsert"
                    ELSE IF call.cc # <<>> THEN "ignore" ELSE "fail"
        IN  \A i \in DOMAIN sent :
                sent[i].kind = "INSERT" =>
                    /\ mode = "upsert" =>
                          sent[i].clause = "DO UPDATE" /\ sent[i].target = call.cc
                    /\ mode = "ignore" =>
                          sent[i].clause = "DO NOTHING" /\ sent[i].target = call.cc
                    /\ mode = "fail" =>
                          sent[i].clause = "none" /\ sent[i].target = <<>>

\* an ignore-mode bulk_insert of two rows with the same symbol has run: the
\* second INSERT met the first one's row and changed nothing
C13_Witness ==
    /\ call.op = "bulk_insert" /\ ~call.upsert /\ call.cc = <<SymbolCol>>
    /\ call.columns = <<SymbolCol, KindCol>>
    /\ Len(call.rows) = 2 /\ call.rows[1][1] = call.rows[2][1]
    /\ ret = Returns("int", 1, FALSE)
    /\ \E i \in DOMAIN sent : sent[i].clause = "DO NOTHING"

\* C15: no caller holds a Commander whose construction did not connect: a
\* Commander that has never opened a connection does not exist.
C15_ConstructionConnects == ~(nOpened = 0 /\ conn = NoConn)

\* C16: a call that has to reach the store and finds no connection reports it
\* as execute_query does, by raising ConnectionError, whichever operation it
\* is, and never by the value a successful call returns.
C16_UniformFailure ==
    /\ conn = NoConn
    /\ \/ call.op = "list_tables"
       \/ call.op \in {"delete_table", "table_exists"} /\ IdentOk(call.table)
       \/ call.op = "create_table" /\ IdentOk(call.table) /\ call.cols # <<>>
                                   /\ ColsValid(call.cols)
    => ret.tag = "ConnectionError"

\* C17: create_table(if_not_exists=True) with the name and the schema of the
\* table that exists, on a Commander with a connection, sends CREATE TABLE IF
\* NOT EXISTS, leaves the table and its rows as they are and raises nothing.
C17_CreateIdempotent ==
    [][/\ call'.op = "create_table" /\ call'.ifne /\ call'.table = Tbl
       /\ db.exists
       /\ ~CreateRejected(ColDefs(call'.cols))
       /\ db.cols = ColumnsOf(ColDefs(call'.cols))
       /\ conn' # NoConn
       => /\ db' = db
          /\ ret' = RetNone
          /\ sent'[Len(sent')].kind = "CREATE TABLE"
          /\ sent'[Len(sent')].ifNotExists]_vars

\* create_table(if_not_exists=True) has run with the schema of a table that
\* holds a row
C17_Witness ==
    /\ call.op = "create_table" /\ call.ifne /\ call.table = Tbl
    /\ db.exists /\ db.rows # NoRows
    /\ db.cols = ColumnsOf(ColDefs(call.cols))
    /\ ~CreateRejected(ColDefs(call.cols))
    /\ ret = RetNone
    /\ Len(sent) >= 1 /\ sent[Len(sent)].kind = "CREATE TABLE"

\* C19: once close() has been called, no operation opens a connection or
\* sends a statement.
C19_ShutdownIsFinal ==
    [][shut => nOpened' = nOpened /\ sent' = <<>>]_vars

(***************************************************************************)
(* SpecIdent: _check_ident applied to every string of at most MaxNameLen   *)
(* characters over Alphabet.                                               *)
(***************************************************************************)
MaxNameLen == 3

Alphabet == {"a", "Z", "_", "7", ";", "-", "'", "\"", " ", "\n", "\t"}

Strings(n) == UNION { [1..k -> Alphabet] : k \in 0..n }

InitIdent ==
    /\ name \in Strings(MaxNameLen)
    /\ identOut = "none"
    /\ CmdIdle

CallCheckIdent ==
    /\ identOut = "none"
    /\ identOut' = CheckIdent(name)
    /\ UNCHANGED <<name, cmdVars, scopeVars, seqVars>>

NextIdent == CallCheckIdent

SpecIdent == InitIdent /\ [][NextIdent]_vars

\* C5: _check_ident accepts a name exactly when it is a non-empty string of a
\* letter or underscore followed by only letters, digits and underscores;
\* every other string (empty, leading digit, ';', '--', a quote, whitespace,
\* a trailing newline) is rejected.
C5_AcceptsExactlyIdentifiers ==
    identOut # "none" =>
        (identOut = "ok" <=>
            /\ Len(name) >= 1
            /\ name[1] \in IdentStart
            /\ \A j \in 2..Len(name) : name[j] \in IdentPart)

====
